---- MODULE Spec2Model ----
(***************************************************************************)
(* The Insights screen of mankan1/pyworkCl: the load() callback of         *)
(* InsightsScreen, the request() wrapper of the API client, the numeric    *)
(* helpers of lib/num.ts and of the screen, and the bars of the cards.     *)
(*                                                                         *)
(* The repository holds two copies of the screen and two of the API        *)
(* client.  Which copy is built is fixed at start-up (variables screen and *)
(* client) and never changes:                                              *)
(*   screen = "InsightsScreen.tsx"  src/src/screens/InsightsScreen.tsx     *)
(*   screen = "part_000"            src/unnamed/part_000, lines 1-559      *)
(*   client = "part_000"            src/unnamed/part_000, lines 560-674    *)
(*   client = "part_001"            src/unnamed/part_001                   *)
(*                                                                         *)
(* JavaScript runs one macrotask (a network event, a timer, a gesture) and *)
(* then every microtask it queued before the next macrotask starts, so an  *)
(* action below is one macrotask together with the promise reactions it    *)
(* triggers: a request settling, Promise.all reacting, and the rest of     *)
(* load() after its await.                                                 *)
(***************************************************************************)
EXTENDS Integers, Sequences, FiniteSets, TLC

VARIABLES
    screen,     \* which copy of InsightsScreen is built
    client,     \* which copy of the API client is built
    summary,    \* useState<Summary | null>
    sentiment,  \* useState<Sentiment | null>
    patterns,   \* useState<Patterns | null>
    loading,    \* useState(true)
    err,        \* useState<string | null>
    started,    \* number of calls of load() so far
    join,       \* join[c]: state of the Promise.all of load cycle c
    req,        \* req[c][e]: the call of request()/getX() of cycle c, endpoint e
    settled,    \* what the request() call that settled most recently settled with
    call,       \* a call of request() taken on its own
    callEp,     \* the endpoint of that call
    callOut,    \* what that call settled with
    arg,        \* the payload field(s) a helper or a bar is applied to
    ret         \* the helper applied and what it returned

\* The screen and its load cycles.
vars == <<screen, client, summary, sentiment, patterns, loading, err,
          started, join, req, settled>>

\* One call of request().
callVars == <<call, callEp, callOut>>

\* One application of a numeric helper.
numVars == <<arg, ret>>

allVars == <<vars, callVars, numVars>>

----------------------------------------------------------------------------
(* Bounds *)

\* load() is called at most MaxLoads times (the mount effect and refreshes).
MaxLoads == 2

\* A response body is at most MaxExtra characters longer than the slice kept.
MaxExtra == 1

\* A string given to a numeric helper has at most MaxStrLen characters
\* (and the few longer ones of LongStrings).
MaxStrLen == 3

\* A number given to a numeric helper lies at most MaxOver / Scale outside [0, 1].
MaxOver == 5

----------------------------------------------------------------------------
(* Values *)

\* text.slice(0, 180)
SliceLen == 180

Screens == {"InsightsScreen.tsx", "part_000"}
Clients == {"part_000", "part_001"}

Endpoints == {"summary", "sentiment", "patterns"}

Cycles == 1..MaxLoads

\* HTTP statuses a response can carry; Response.ok is 200..299.
Statuses == {200, 201, 299, 300, 404, 500, 503}

\* The statuses the load cycles are run with: one that is ok, one that is not.
LoadStatuses == {200, 404}

ResOk(status) == status >= 200 /\ status <= 299

\* A response body text of n characters (characters as codes); bodies of
\* different lengths differ from their first character on.
BodyOfLen(n) == [i \in 1..n |-> (i + n) % 7]

Bodies == {BodyOfLen(n) : n \in {0, 1, SliceLen, SliceLen + MaxExtra}}

\* The bodies the load cycles are run with: empty, and longer than the slice.
LoadBodies == {BodyOfLen(n) : n \in {0, SliceLen + MaxExtra}}

Min(a, b) == IF a < b THEN a ELSE b

\* String.prototype.slice(0, n)
Slice(text, n) == SubSeq(text, 1, Min(n, Len(text)))

\* null
Null == [cycle |-> 0, ep |-> "null"]

\* The JSON document endpoint e returns to cycle c.
Payload(c, e) == [cycle |-> c, ep |-> e]

\* u.pathname + u.search of request(path, query)
PathOf(e) ==
    CASE e = "summary"   -> "/api/insights/summary?tf=daily"
      [] e = "sentiment" -> "/api/insights/sentiment"
      [] e = "patterns"  -> "/api/insights/patterns?tf=5m"

\* An Error object: its name and the parts of its message.
Error(name, text, status, path, body) ==
    [name |-> name, text |-> text, status |-> status, path |-> path, body |-> body]

\* What fetch, res.text() and res.json() reject with when ctl.abort() is called.
AbortError == Error("AbortError", "Aborted", 0, "", <<>>)

\* What fetch rejects with when the network fails.
NetworkError == Error("TypeError", "Network request failed", 0, "", <<>>)

\* What res.json() rejects with on a body that is not JSON.
ParseError == Error("SyntaxError", "JSON Parse error", 0, "", <<>>)

\* new Error("Request timed out")
TimedOut == Error("Error", "Request timed out", 0, "", <<>>)

NoError == Error("", "", 0, "", <<>>)

\* No settlement yet.
Nothing == [ok |-> FALSE, value |-> Null, error |-> NoError]

Fulfilled(v) == [ok |-> TRUE, value |-> v, error |-> NoError]
Rejected(e) == [ok |-> FALSE, value |-> Null, error |-> e]

\* e.message as the screen stores it: the message without the error's name.
MessageOf(e) == [text |-> e.text, status |-> e.status, path |-> e.path, body |-> e.body]

NoMessage == [text |-> "null", status |-> 0, path |-> "", body |-> <<>>]

----------------------------------------------------------------------------
(* JavaScript values and Number() *)

RECURSIVE Pow10(_)
Pow10(n) == IF n = 0 THEN 1 ELSE 10 * Pow10(n - 1)

\* A finite number is k / Scale: every decimal string of the inputs is exact.
Scale == Pow10(MaxStrLen)

Num(k) == [t |-> "number", n |-> k, s |-> <<>>]
NaN == [t |-> "nan", n |-> 0, s |-> <<>>]
Infinity(sign) == [t |-> "infinity", n |-> sign, s |-> <<>>]
JsNull == [t |-> "null", n |-> 0, s |-> <<>>]
Undefined == [t |-> "undefined", n |-> 0, s |-> <<>>]
Bool(b) == [t |-> "boolean", n |-> IF b THEN 1 ELSE 0, s |-> <<>>]
Str(chars) == [t |-> "string", n |-> 0, s |-> chars]

DigitChars == <<"0", "1", "2", "3", "4", "5", "6", "7", "8", "9">>
IsDigit(ch) == \E i \in 1..10 : DigitChars[i] = ch
DigitVal(ch) == (CHOOSE i \in 1..10 : DigitChars[i] = ch) - 1

\* String.prototype.trim, as StringToNumber strips white space.
RECURSIVE TrimLeft(_)
TrimLeft(cs) == IF cs # <<>> /\ Head(cs) = " " THEN TrimLeft(Tail(cs)) ELSE cs
RECURSIVE TrimRight(_)
TrimRight(cs) ==
    IF cs # <<>> /\ cs[Len(cs)] = " " THEN TrimRight(SubSeq(cs, 1, Len(cs) - 1)) ELSE cs
Trim(cs) == TrimRight(TrimLeft(cs))

\* The value of a string of digits read as an integer.
RECURSIVE DigitsValue(_)
DigitsValue(cs) ==
    IF cs = <<>> THEN 0
    ELSE 10 * DigitsValue(SubSeq(cs, 1, Len(cs) - 1)) + DigitVal(cs[Len(cs)])

\* StrUnsignedDecimalLiteral: digits, digits "." digits?, or "." digits.
DotsOf(cs) == {i \in 1..Len(cs) : cs[i] = "."}
IsDecimal(cs) ==
    /\ \A i \in 1..Len(cs) : IsDigit(cs[i]) \/ cs[i] = "."
    /\ Cardinality(DotsOf(cs)) <= 1
    /\ \E i \in 1..Len(cs) : IsDigit(cs[i])

\* Its value, in units of 1 / Scale.
DecimalValue(cs) ==
    LET dot == IF DotsOf(cs) = {} THEN Len(cs) + 1 ELSE CHOOSE i \in DotsOf(cs) : TRUE
        int == SubSeq(cs, 1, dot - 1)
        frac == SubSeq(cs, dot + 1, Len(cs))
    IN DigitsValue(int) * Scale + (DigitsValue(frac) * Scale) \div Pow10(Len(frac))

InfinityChars == <<"I", "n", "f", "i", "n", "i", "t", "y">>

\* StringToNumber: the empty string is 0, a signed decimal its value, a signed
\* "Infinity" an infinity, anything else NaN.
StringToNumber(cs) ==
    LET t == Trim(cs)
        signed == t # <<>> /\ Head(t) \in {"+", "-"}
        sign == IF t # <<>> /\ Head(t) = "-" THEN -1 ELSE 1
        body == IF signed THEN Tail(t) ELSE t
    IN IF t = <<>> THEN Num(0)
       ELSE IF body = InfinityChars THEN Infinity(sign)
       ELSE IF IsDecimal(body) THEN Num(sign * DecimalValue(body))
       ELSE NaN

\* Number(x)
ToNumber(x) ==
    CASE x.t = "number"    -> x
      [] x.t = "nan"       -> x
      [] x.t = "infinity"  -> x
      [] x.t = "null"      -> Num(0)
      [] x.t = "undefined" -> NaN
      [] x.t = "boolean"   -> Num(x.n)
      [] x.t = "string"    -> StringToNumber(x.s)

\* Number.isFinite(v), v a number
IsFinite(v) == v.t = "number"

\* Math.min(a, b) and Math.max(a, b) of two numbers: NaN if either is NaN.
MathMin(a, b) ==
    IF a.t = "nan" \/ b.t = "nan" THEN NaN
    ELSE IF a.t = "infinity" /\ a.n < 0 THEN a
    ELSE IF b.t = "infinity" /\ b.n < 0 THEN b
    ELSE IF a.t = "infinity" THEN b
    ELSE IF b.t = "infinity" THEN a
    ELSE IF a.n <= b.n THEN a ELSE b

MathMax(a, b) ==
    IF a.t = "nan" \/ b.t = "nan" THEN NaN
    ELSE IF a.t = "infinity" /\ a.n > 0 THEN a
    ELSE IF b.t = "infinity" /\ b.n > 0 THEN b
    ELSE IF a.t = "infinity" THEN b
    ELSE IF b.t = "infinity" THEN a
    ELSE IF a.n >= b.n THEN a ELSE b

----------------------------------------------------------------------------
(* The numeric helpers *)

\* No helper has been applied yet.
NotApplied == [fn |-> "none", v |-> Undefined]

\* Math.max(0, Math.min(1, v)) with the finiteness test left out.
ClampUnchecked(x) == MathMax(Num(0), MathMin(Num(Scale), ToNumber(x)))

\* lib/num.ts: const v = Number(n);
\* return Number.isFinite(v) ? Math.max(0, Math.min(1, v)) : 0;
ratio01(x) ==
    LET v == ToNumber(x)
    IN IF IsFinite(v) THEN MathMax(Num(0), MathMin(Num(Scale), v)) ELSE Num(0)

\* InsightsScreen.tsx: the same body as ratio01.
num01(x) ==
    LET v == ToNumber(x)
    IN IF IsFinite(v) THEN MathMax(Num(0), MathMin(Num(Scale), v)) ELSE Num(0)

\* part_000: const safe01 = (v: number) => Math.max(0, Math.min(1, v));
\* Math.min and Math.max apply Number() to their arguments.
safe01(x) == MathMax(Num(0), MathMin(Num(Scale), ToNumber(x)))

----------------------------------------------------------------------------
(* Text of numbers: Number.prototype.toFixed, Number::toString, Math.round *)

\* The decimal digits of a natural number.
RECURSIVE IntToChars(_)
IntToChars(n) ==
    IF n < 10 THEN <<DigitChars[n + 1]>>
    ELSE IntToChars(n \div 10) \o <<DigitChars[(n % 10) + 1]>>

RECURSIVE PadLeft(_, _)
PadLeft(cs, len) == IF Len(cs) >= len THEN cs ELSE PadLeft(<<"0">> \o cs, len)

RECURSIVE StripZeros(_)
StripZeros(cs) ==
    IF cs # <<>> /\ cs[Len(cs)] = "0" THEN StripZeros(SubSeq(cs, 1, Len(cs) - 1)) ELSE cs

Abs(k) == IF k < 0 THEN 0 - k ELSE k

\* v.toFixed(f), v finite: the sign, then the integer n with n / 10^f closest
\* to |v| (the larger n of two), written with f digits after the point.
toFixed(v, f) ==
    LET n == (2 * Abs(v.n) * Pow10(f) + Scale) \div (2 * Scale)
        m == PadLeft(IntToChars(n), f + 1)
        k == Len(m)
        text == IF f = 0 THEN m
                ELSE SubSeq(m, 1, k - f) \o <<".">> \o SubSeq(m, k - f + 1, k)
    IN Str((IF v.n < 0 THEN <<"-">> ELSE <<>>) \o text)

\* Number::toString(v), as a template literal or String() applies it.
NumberToString(v) ==
    CASE v.t = "nan"      -> <<"N", "a", "N">>
      [] v.t = "infinity" -> (IF v.n < 0 THEN <<"-">> ELSE <<>>) \o InfinityChars
      [] v.t = "number"   ->
            LET int == IntToChars(Abs(v.n) \div Scale)
                frac == StripZeros(PadLeft(IntToChars(Abs(v.n) % Scale), MaxStrLen))
            IN (IF v.n < 0 THEN <<"-">> ELSE <<>>) \o int
                   \o (IF frac = <<>> THEN <<>> ELSE <<".">> \o frac)

\* Math.round(v): the integer nearest to v, the larger of two.
MathRound(v) ==
    IF v.t # "number" THEN v
    ELSE Num(((2 * v.n + Scale) \div (2 * Scale)) * Scale)

\* v * 100
Times100(v) == IF v.t = "number" THEN Num(100 * v.n) ELSE v

\* The fallback text "—" (U+2014), one character.
Dash == Str(<<"U+2014">>)

\* lib/num.ts: const v = Number(n); if (!Number.isFinite(v)) return dash;
\* const clamped = Math.max(0, Math.min(1, v));
\* return (clamped * 100).toFixed(0) + "%";
pct(x, dash) ==
    LET v == ToNumber(x)
        clamped == MathMax(Num(0), MathMin(Num(Scale), v))
    IN IF ~IsFinite(v) THEN dash
       ELSE Str(toFixed(Times100(clamped), 0).s \o <<"%">>)

\* lib/num.ts: const v = Number(n);
\* return Number.isFinite(v) ? v.toFixed(digits) : dash;
fmt(n, digits, dash) ==
    LET v == ToNumber(n)
    IN IF IsFinite(v) THEN toFixed(v, digits) ELSE dash

\* Number(x) when it is finite and NaN otherwise.
NumOrNaN(x) == IF IsFinite(ToNumber(x)) THEN ToNumber(x) ELSE NaN

\* InsightsScreen.tsx: (Number.isFinite(Number(x)) ? Number(x) : 0)
num(x) == IF IsFinite(ToNumber(x)) THEN ToNumber(x) ELSE Num(0)

\* part_000: const pct = (v: number) => `${Math.round(safe01(v) * 100)}%`;
pct_part_000(x) ==
    Str(NumberToString(MathRound(Times100(safe01(x)))) \o <<"%">>)

----------------------------------------------------------------------------
(* The tone of a put/call ratio *)

\* a < b of two operands that are not both strings: both are coerced by
\* Number(), and a comparison with NaN is false.
JsLess(a, b) ==
    LET x == ToNumber(a)
        y == ToNumber(b)
    IN IF x.t = "nan" \/ y.t = "nan" THEN FALSE
       ELSE IF x.t = "infinity" THEN x.n < 0 /\ ~(y.t = "infinity" /\ y.n < 0)
       ELSE IF y.t = "infinity" THEN y.n > 0
       ELSE x.n < y.n

\* The literals 0.9 and 1.1.
Low == Num((9 * Scale) \div 10)
High == Num((11 * Scale) \div 10)

\* pcTone with the bounds taken into the tones: v <= 0.9 and v >= 1.1.
pcToneInclusive(ratio) ==
    LET v == ToNumber(ratio)
    IN IF ~IsFinite(v) THEN "neutral"
       ELSE IF ~JsLess(Low, v) THEN "good"
       ELSE IF ~JsLess(v, High) THEN "warn"
       ELSE "neutral"

\* InsightsScreen.tsx: const v = Number(ratio);
\* if (!Number.isFinite(v)) return "neutral";
\* return v < 0.9 ? "good" : v > 1.1 ? "warn" : "neutral";
pcTone(ratio) ==
    LET v == ToNumber(ratio)
    IN IF ~IsFinite(v) THEN "neutral"
       ELSE IF JsLess(v, Low) THEN "good"
       ELSE IF JsLess(High, v) THEN "warn"
       ELSE "neutral"

\* part_000: (ratio < 0.9 ? "good" : ratio > 1.1 ? "warn" : "neutral")
pcTone_part_000(ratio) ==
    IF JsLess(ratio, Low) THEN "good"
    ELSE IF JsLess(High, ratio) THEN "warn"
    ELSE "neutral"

\* part_000: typeof v === "number" && Number.isFinite(v)
isNum(v) == v.t = "number"

\* The fallback text "–" (U+2013) of part_000, one character.
EnDash == Str(<<"U+2013">>)

\* part_000 line 216: isNum(ratio) ? pcTone(ratio!) : "neutral"
PutCallTone_part_000(ratio) ==
    IF isNum(ratio) THEN pcTone_part_000(ratio) ELSE "neutral"

\* part_000 line 225: isNum(score) ? pct(safe01(score!)) : "–"
DarkPool_part_000(score) ==
    IF isNum(score) THEN pct_part_000(safe01(score)) ELSE EnDash

----------------------------------------------------------------------------
(* The bars of the summary card *)

\* A percentage computed by a division: the rational p / q, q > 0, or NaN.
RECURSIVE GCD(_, _)
GCD(m, n) == IF n = 0 THEN m ELSE GCD(n, m % n)

\* The fraction is kept in lowest terms.
Share(p, q) ==
    LET g == GCD(IF p < 0 THEN 0 - p ELSE p, q)
    IN [t |-> "number", p |-> p \div g, q |-> q \div g]
NaNShare == [t |-> "nan", p |-> 0, q |-> 1]
PercentOf(k) == Share(k, 1)

\* a + b of two operands that are not strings: both are coerced by Number().
JsAdd(a, b) ==
    LET x == ToNumber(a)
        y == ToNumber(b)
    IN IF IsFinite(x) /\ IsFinite(y) THEN Num(x.n + y.n) ELSE NaN

\* ToBoolean(x)
Truthy(x) ==
    CASE x.t = "number"    -> x.n # 0
      [] x.t = "nan"       -> FALSE
      [] x.t = "infinity"  -> TRUE
      [] x.t = "null"      -> FALSE
      [] x.t = "undefined" -> FALSE
      [] x.t = "boolean"   -> x.n = 1
      [] x.t = "string"    -> x.s # <<>>

\* x / t without the factor 100.
Quotient(x, t) ==
    LET v == ToNumber(x)
    IN IF IsFinite(v) /\ IsFinite(t) THEN Share(v.n, t.n) ELSE NaNShare

\* (x / t) * 100, t a number that is at least 1 or NaN.
Percent(x, t) ==
    LET v == ToNumber(x)
    IN IF IsFinite(v) /\ IsFinite(t) THEN Share(100 * v.n, t.n) ELSE NaNShare

ShareLe(x, y) == x.p * y.q <= y.p * x.q

ShareSub(x, y) ==
    IF x.t = "nan" \/ y.t = "nan" THEN NaNShare
    ELSE Share(x.p * y.q - y.p * x.q, x.q * y.q)

ShareAdd(x, y) ==
    IF x.t = "nan" \/ y.t = "nan" THEN NaNShare
    ELSE Share(x.p * y.q + y.p * x.q, x.q * y.q)

\* Math.min and Math.max of two percentages.
ShareMin(x, y) ==
    IF x.t = "nan" \/ y.t = "nan" THEN NaNShare
    ELSE IF ShareLe(x, y) THEN x ELSE y

ShareMax(x, y) ==
    IF x.t = "nan" \/ y.t = "nan" THEN NaNShare
    ELSE IF ShareLe(x, y) THEN y ELSE x

\* BreadthBar with the unchanged segment computed as its own ratio.
BreadthBarOwnRatio(advancers, decliners, unchanged) ==
    LET total == MathMax(Num(Scale), JsAdd(JsAdd(advancers, decliners), unchanged))
    IN [a |-> Percent(advancers, total),
        u |-> Percent(unchanged, total),
        d |-> Percent(decliners, total)]

\* InsightsScreen.tsx, BreadthBar: the flex bases of the three segments.
\*   total = Math.max(1, advancers + decliners + unchanged);
\*   a = (advancers / total) * 100;  d = (decliners / total) * 100;
\*   u = Math.max(0, 100 - a - d);
BreadthBar(advancers, decliners, unchanged) ==
    LET total == MathMax(Num(Scale), JsAdd(JsAdd(advancers, decliners), unchanged))
        a == Percent(advancers, total)
        d == Percent(decliners, total)
        u == ShareMax(PercentOf(0), ShareSub(ShareSub(PercentOf(100), a), d))
    IN [a |-> a, u |-> u, d |-> d]

\* part_000, BreadthBar: the same with u = 100 - a - d.
BreadthBar_part_000(advancers, decliners, unchanged) ==
    LET total == MathMax(Num(Scale), JsAdd(JsAdd(advancers, decliners), unchanged))
        a == Percent(advancers, total)
        d == Percent(decliners, total)
        u == ShareSub(ShareSub(PercentOf(100), a), d)
    IN [a |-> a, u |-> u, d |-> d]

\* t = Math.max(1, total || up + down)
VolumeTotal(up, down, total) ==
    MathMax(Num(Scale), ToNumber(IF Truthy(total) THEN total ELSE JsAdd(up, down)))

\* InsightsScreen.tsx, VolumeBar: the flex bases of the two segments.
\*   pUp = Math.max(0, Math.min(100, (up / t) * 100)); pDown likewise.
VolumeBar(up, down, total) ==
    LET t == VolumeTotal(up, down, total)
    IN [pUp |-> ShareMax(PercentOf(0), ShareMin(PercentOf(100), Percent(up, t))),
        pDown |-> ShareMax(PercentOf(0), ShareMin(PercentOf(100), Percent(down, t)))]

\* part_000, VolumeBar: pUp = (up / t) * 100; pDown = (down / t) * 100.
VolumeBar_part_000(up, down, total) ==
    LET t == VolumeTotal(up, down, total)
    IN [pUp |-> Percent(up, t), pDown |-> Percent(down, t)]

\* ConfidenceBar showing the fallback text for a confidence that is falsy.
ConfidenceBarDashWhenFalsy(confidence) ==
    LET pctv == MathMax(Num(0), MathMin(Num(Scale), ToNumber(confidence)))
    IN [width |-> Str(NumberToString(Times100(pctv)) \o <<"%">>),
        text |-> IF Truthy(confidence) THEN pct(pctv, Dash) ELSE Dash]

\* InsightsScreen.tsx, ConfidenceBar: the width of the fill and the text.
\*   pctv = Math.max(0, Math.min(1, confidence));
\*   width: `${pctv * 100}%`;  text: pct(pctv)
ConfidenceBar(confidence) ==
    LET pctv == MathMax(Num(0), MathMin(Num(Scale), ToNumber(confidence)))
    IN [width |-> Str(NumberToString(Times100(pctv)) \o <<"%">>),
        text |-> pct(pctv, Dash)]

\* part_000, ConfidenceBar: the same with text pct(confidence), its own pct.
ConfidenceBar_part_000(confidence) ==
    LET pctv == MathMax(Num(0), MathMin(Num(Scale), ToNumber(confidence)))
    IN [width |-> Str(NumberToString(Times100(pctv)) \o <<"%">>),
        text |-> pct_part_000(confidence)]

----------------------------------------------------------------------------
(* request(): the API client *)

\* The state of a call of request(): where it is suspended (phase), the status
\* of the response it holds, and its timer t.
\*   phase: "none" not called, "fetch" awaiting fetch(), "json" awaiting
\*          res.json(), "text" awaiting res.text(), "fulfilled", "rejected"
\*   timer: "none" no timer was set, "armed", "fired" (its callback ran:
\*          ctl.signal.aborted), "cleared"
NotCalled == [phase |-> "none", status |-> 0, timer |-> "none"]

IsSettled(r) == r.phase \in {"fulfilled", "rejected"}
IsPending(r) == r.phase \in {"fetch", "json", "text"}

\* Up to the first await: the timer is set (the client of part_001 sets none)
\* and fetch() is called.
NewRequest(cl) ==
    [phase |-> "fetch", status |-> 0,
     timer |-> IF cl = "part_000" THEN "armed" ELSE "none"]

\* The body text put into the message whole, without slice(0, 180).
HttpErrorUnsliced(cl, status, e, text) ==
    IF cl = "part_000"
    THEN Error("Error", "HTTP", status, PathOf(e), text)
    ELSE Error("Error", e, status, "", <<>>)

\* throw new Error(`HTTP ${res.status} on ${u.pathname}${u.search}${text ? ` - ${text.slice(0, 180)}` : ""}`)
\* and, in part_001, throw new Error(`summary ${r.status}`)
HttpError(cl, status, e, text) ==
    IF cl = "part_000"
    THEN Error("Error", "HTTP", status, PathOf(e), Slice(text, SliceLen))
    ELSE Error("Error", e, status, "", <<>>)

\* catch (e) { if (e?.name === "AbortError") throw new Error("Request timed out"); throw e; }
\* The client of part_001 has no catch.
RequestCatch(cl, e) ==
    IF cl = "part_000" /\ e.name = "AbortError" THEN TimedOut ELSE e

\* A finally block lost: the timer is cleared on the success path only.
ClearOnSuccessOnly(timer, s) ==
    IF s.ok /\ timer = "armed" THEN "cleared" ELSE timer

\* finally { clearTimeout(t); }  on the way out with settlement s; clearing a
\* timer that has fired does nothing.
RequestFinally(timer, s) ==
    IF timer = "armed" THEN "cleared" ELSE timer

\* request() suspends again at an await.
Suspend(r) == [req |-> r, out |-> Nothing]

\* request() returns v: the finally block runs and the promise fulfils.
Return(r, v) ==
    [req |-> [phase |-> "fulfilled", status |-> r.status,
              timer |-> RequestFinally(r.timer, Fulfilled(v))],
     out |-> Fulfilled(v)]

\* request() throws e inside its try block: catch, finally, the promise rejects.
Throw(cl, r, e) ==
    [req |-> [phase |-> "rejected", status |-> r.status,
              timer |-> RequestFinally(r.timer, Rejected(RequestCatch(cl, e)))],
     out |-> Rejected(RequestCatch(cl, e))]

\* const text = await res.text().catch(() => ""): the text read, or "" when
\* reading rejected; then the throw of the HTTP error.
AfterText(cl, r, e, text) == Throw(cl, r, HttpError(cl, r.status, e, text))

\* fetch() resolved with a response of the given status.
AfterFetch(cl, r, e, status) ==
    IF ResOk(status) THEN Suspend([r EXCEPT !.phase = "json", !.status = status])
    ELSE IF cl = "part_000"
         THEN Suspend([r EXCEPT !.phase = "text", !.status = status])
         ELSE Throw(cl, [r EXCEPT !.status = status], HttpError(cl, status, e, <<>>))

\* The promise request() is awaiting rejects with raw.
AfterRejection(cl, r, e, raw) ==
    IF r.phase = "text" THEN AfterText(cl, r, e, <<>>) ELSE Throw(cl, r, raw)

\* setTimeout(() => ctl.abort(), 8000) runs: the pending fetch or body read
\* rejects with an AbortError; a call that has settled is not affected.
AfterAbort(cl, r, e) ==
    IF IsPending(r)
    THEN AfterRejection(cl, [r EXCEPT !.timer = "fired"], e, AbortError)
    ELSE Suspend([r EXCEPT !.timer = "fired"])

----------------------------------------------------------------------------
(* InsightsScreen.load *)

\* Promise.allSettled in the place of Promise.all: the join waits for all three.
PromiseAllSettled(j, rq, s) ==
    IF j # "pending" THEN j
    ELSE IF \E e \in Endpoints : ~IsSettled(rq[e]) THEN "pending"
    ELSE IF \E e \in Endpoints : rq[e].phase = "rejected" THEN "rejected"
    ELSE "fulfilled"

\* Promise.all([getSummary("daily"), getSentiment(), getPatterns("5m")]) after
\* one of its promises settled with s; rq are the three calls after that.
PromiseAll(j, rq, s) ==
    IF j # "pending" THEN j
    ELSE IF ~s.ok THEN "rejected"
    ELSE IF \A e \in Endpoints : rq[e].phase = "fulfilled" THEN "fulfilled"
    ELSE "pending"

\* const s = await getSummary("daily") first: only the first call is made.
IssueFirstOnly(cl) ==
    [e \in Endpoints |-> IF e = "summary" THEN NewRequest(cl) ELSE NotCalled]

\* The three calls are made one after the other, each up to its first await,
\* before Promise.all is awaited.
IssueRequests(cl) == [e \in Endpoints |-> NewRequest(cl)]

\* e?.message ?? "Failed to load insights"
CatchMessage(e) ==
    IF e = NoError
    THEN [text |-> "Failed to load insights", status |-> 0, path |-> "", body |-> <<>>]
    ELSE MessageOf(e)

\* The catch block of load(): part_000 clears the three results,
\* InsightsScreen.tsx only sets the error.
CatchClears(sc) == sc = "part_000"

\* The state variable that holds the result of endpoint e.
Held(e) ==
    CASE e = "summary"   -> summary
      [] e = "sentiment" -> sentiment
      [] e = "patterns"  -> patterns

\* A generation token: only the cycle started last stores its results.
StoredIfLatest(c, e) == IF c = started THEN Payload(c, e) ELSE Held(e)

\* A try body that calls setSummary only: the other two results stay as held.
StoredSummaryOnly(c, e) == IF e = "summary" THEN Payload(c, e) ELSE Held(e)

\* const [s, sen, p] = await Promise.all([...]); setSummary(s); setSentiment(sen);
\* setPatterns(p): what cycle c stores for endpoint e.
Stored(c, e) == Payload(c, e)

\* A load() that keeps what arrived: on a rejection it stores the payloads of
\* the requests of the cycle that have fulfilled.
LoadResumeKeepsPartial(c, j, s) ==
    /\ CASE j = "fulfilled" ->
              /\ summary' = Stored(c, "summary")
              /\ sentiment' = Stored(c, "sentiment")
              /\ patterns' = Stored(c, "patterns")
              /\ err' = err
         [] j = "rejected" ->
              /\ err' = CatchMessage(s.error)
              /\ summary' = IF req'[c]["summary"].phase = "fulfilled"
                            THEN Stored(c, "summary") ELSE summary
              /\ sentiment' = IF req'[c]["sentiment"].phase = "fulfilled"
                              THEN Stored(c, "sentiment") ELSE sentiment
              /\ patterns' = IF req'[c]["patterns"].phase = "fulfilled"
                             THEN Stored(c, "patterns") ELSE patterns
    /\ loading' = FALSE

\* {!loading && !summary && !sentiment && !patterns && <Text>No data yet. Pull
\* to refresh.</Text>}: the empty-state text is on the screen.
EmptyState == ~loading /\ summary = Null /\ sentiment = Null /\ patterns = Null

\* load() resumes after its await: try body or catch, then finally.
LoadResume(c, j, s) ==
    /\ CASE j = "fulfilled" ->
              /\ summary' = Stored(c, "summary")
              /\ sentiment' = Stored(c, "sentiment")
              /\ patterns' = Stored(c, "patterns")
              /\ err' = err
         [] j = "rejected" ->
              /\ err' = CatchMessage(s.error)
              /\ IF CatchClears(screen)
                 THEN summary' = Null /\ sentiment' = Null /\ patterns' = Null
                 ELSE UNCHANGED <<summary, sentiment, patterns>>
    /\ loading' = FALSE

\* What the load cycles keep of a call that has settled: that it fulfilled or
\* rejected, and whether its timer is still armed.  The response and the
\* AbortController are out of reach once request() has returned.
Forget(r) ==
    IF IsSettled(r)
    THEN [phase |-> r.phase, status |-> 0,
          timer |-> IF r.timer = "fired" THEN "cleared" ELSE r.timer]
    ELSE r

\* A step of the request of cycle c, endpoint e, with outcome fin, and the
\* promise reactions it triggers.
Deliver(c, e, fin) ==
    /\ req' = [req EXCEPT ![c][e] = Forget(fin.req)]
    /\ IF fin.out = Nothing
       THEN UNCHANGED <<settled, join, summary, sentiment, patterns, loading, err>>
       ELSE /\ settled' = fin.out
            /\ join' = [join EXCEPT ![c] = PromiseAll(join[c], req'[c], fin.out)]
            /\ IF join[c] = "pending" /\ join'[c] # "pending"
               THEN LoadResume(c, join'[c], fin.out)
               ELSE UNCHANGED <<summary, sentiment, patterns, loading, err>>
    /\ UNCHANGED <<screen, client, started, callVars, numVars>>

----------------------------------------------------------------------------
(* Actions *)

Init ==
    /\ screen \in Screens
    /\ client \in Clients
    /\ summary = Null
    /\ sentiment = Null
    /\ patterns = Null
    /\ loading = TRUE
    /\ err = NoMessage
    /\ started = 0
    /\ join = [c \in Cycles |-> "none"]
    /\ req = [c \in Cycles |-> [e \in Endpoints |-> NotCalled]]
    /\ settled = Nothing
    /\ call = NotCalled
    /\ callEp = "summary"
    /\ callOut = Nothing
    /\ arg = Undefined
    /\ ret = NotApplied

\* load() up to its await: called by the mount effect and by onRefresh.
Load ==
    /\ started < MaxLoads
    /\ started' = started + 1
    /\ err' = NoMessage
    /\ loading' = TRUE
    /\ req' = [req EXCEPT ![started + 1] = IssueRequests(client)]
    /\ join' = [join EXCEPT ![started + 1] = "pending"]
    /\ UNCHANGED <<screen, client, summary, sentiment, patterns, settled, callVars,
                   numVars>>

\* The response headers arrive: fetch() resolves.
FetchResolves ==
    \E c \in Cycles, e \in Endpoints, status \in LoadStatuses :
        /\ req[c][e].phase = "fetch"
        /\ Deliver(c, e, AfterFetch(client, req[c][e], e, status))

\* The network fails: fetch() rejects.
FetchRejects ==
    \E c \in Cycles, e \in Endpoints :
        /\ req[c][e].phase = "fetch"
        /\ Deliver(c, e, AfterRejection(client, req[c][e], e, NetworkError))

\* The body was read and parsed: res.json() resolves.
JsonResolves ==
    \E c \in Cycles, e \in Endpoints :
        /\ req[c][e].phase = "json"
        /\ Deliver(c, e, Return(req[c][e], Payload(c, e)))

\* The body is not JSON: res.json() rejects.
JsonRejects ==
    \E c \in Cycles, e \in Endpoints :
        /\ req[c][e].phase = "json"
        /\ Deliver(c, e, AfterRejection(client, req[c][e], e, ParseError))

\* The body of a non-2xx response was read: res.text() resolves.
TextResolves ==
    \E c \in Cycles, e \in Endpoints, text \in LoadBodies :
        /\ req[c][e].phase = "text"
        /\ Deliver(c, e, AfterText(client, req[c][e], e, text))

\* The body of a non-2xx response cannot be read: res.text() rejects.
TextRejects ==
    \E c \in Cycles, e \in Endpoints :
        /\ req[c][e].phase = "text"
        /\ Deliver(c, e, AfterRejection(client, req[c][e], e, NetworkError))

\* The 8000 ms of a timer have passed: its callback runs.
TimerFires ==
    \E c \in Cycles, e \in Endpoints :
        /\ req[c][e].timer = "armed"
        /\ Deliver(c, e, AfterAbort(client, req[c][e], e))

Next ==
    \/ Load
    \/ FetchResolves
    \/ FetchRejects
    \/ JsonResolves
    \/ JsonRejects
    \/ TextResolves
    \/ TextRejects
    \/ TimerFires

Spec == Init /\ [][Next]_allVars

\* The load cycles when timers fire: a timer that is armed does not stay armed
\* forever.  Nothing is assumed of the network.
SpecLive == Spec /\ WF_allVars(TimerFires)

----------------------------------------------------------------------------
(* One call of request(), with every status and body *)

CallStep(fin) ==
    /\ call' = fin.req
    /\ callOut' = fin.out
    /\ UNCHANGED <<callEp, vars, numVars>>

InitCall ==
    /\ screen = "part_000"
    /\ client \in Clients
    /\ summary = Null
    /\ sentiment = Null
    /\ patterns = Null
    /\ loading = TRUE
    /\ err = NoMessage
    /\ started = 0
    /\ join = [c \in Cycles |-> "none"]
    /\ req = [c \in Cycles |-> [e \in Endpoints |-> NotCalled]]
    /\ settled = Nothing
    /\ callEp \in Endpoints
    /\ call = NewRequest(client)
    /\ callOut = Nothing
    /\ arg = Undefined
    /\ ret = NotApplied

CallFetchResolves ==
    \E status \in Statuses :
        /\ call.phase = "fetch"
        /\ CallStep(AfterFetch(client, call, callEp, status))

CallFetchRejects ==
    /\ call.phase = "fetch"
    /\ CallStep(AfterRejection(client, call, callEp, NetworkError))

CallJsonResolves ==
    /\ call.phase = "json"
    /\ CallStep(Return(call, Payload(1, callEp)))

CallJsonRejects ==
    /\ call.phase = "json"
    /\ CallStep(AfterRejection(client, call, callEp, ParseError))

CallTextResolves ==
    \E text \in Bodies :
        /\ call.phase = "text"
        /\ CallStep(AfterText(client, call, callEp, text))

CallTextRejects ==
    /\ call.phase = "text"
    /\ CallStep(AfterRejection(client, call, callEp, NetworkError))

CallTimerFires ==
    /\ call.timer = "armed"
    /\ CallStep(AfterAbort(client, call, callEp))

NextCall ==
    \/ CallFetchResolves
    \/ CallFetchRejects
    \/ CallJsonResolves
    \/ CallJsonRejects
    \/ CallTextResolves
    \/ CallTextRejects
    \/ CallTimerFires

SpecRequest == InitCall /\ [][NextCall]_allVars

----------------------------------------------------------------------------
(* One application of a numeric helper to a value of a payload field *)

Alphabet == {"0", "1", "5", ".", "-", "+", " ", "a"}

ShortStrings == UNION {[1..n -> Alphabet] : n \in 0..MaxStrLen}

LongStrings ==
    { InfinityChars, <<"-">> \o InfinityChars, <<"+">> \o InfinityChars,
      <<" ">> \o InfinityChars \o <<" ">>, <<"i", "n", "f">>, <<"N", "a", "N">>,
      <<"0", ".", "2", "5", " ">>, <<" ", "-", "0", ".", "5">> }

Inputs ==
    {Num(k) : k \in (0 - Scale - MaxOver)..(Scale + MaxOver)}
        \cup {Num(k) : k \in Scale..(Scale + Scale \div 5)}
        \cup {Num(1000 * Scale), Num(0 - 1000 * Scale)}
        \cup {NaN, Infinity(1), Infinity(-1), JsNull, Undefined, Bool(TRUE), Bool(FALSE)}
        \cup {Str(cs) : cs \in ShortStrings \cup LongStrings}

InitNum ==
    /\ screen = "part_000"
    /\ client = "part_000"
    /\ summary = Null
    /\ sentiment = Null
    /\ patterns = Null
    /\ loading = TRUE
    /\ err = NoMessage
    /\ started = 0
    /\ join = [c \in Cycles |-> "none"]
    /\ req = [c \in Cycles |-> [e \in Endpoints |-> NotCalled]]
    /\ settled = Nothing
    /\ call = NotCalled
    /\ callEp = "summary"
    /\ callOut = Nothing
    /\ arg \in Inputs
    /\ ret = NotApplied

Apply(fn, v) ==
    /\ ret.fn = NotApplied.fn
    /\ ret' = [fn |-> fn, v |-> v]
    /\ UNCHANGED <<arg, vars, callVars>>

ApplyRatio01 == Apply("ratio01", ratio01(arg))
ApplyNum01 == Apply("num01", num01(arg))
ApplySafe01 == Apply("safe01", safe01(arg))
ApplyPct == Apply("pct", pct(arg, Dash))
ApplyPctPart000 == Apply("pct_part_000", pct_part_000(arg))
ApplyFmtNum == Apply("fmt_num", fmt(num(arg), 2, Dash))
ApplyPcTone == Apply("pcTone", pcTone(arg))
ApplyPcTonePart000 == Apply("pcTone_part_000", pcTone_part_000(arg))
ApplyPutCallTonePart000 == Apply("PutCallTone_part_000", PutCallTone_part_000(arg))
ApplyDarkPoolPart000 == Apply("DarkPool_part_000", DarkPool_part_000(arg))

\* A render pass of the confidence bar of a pattern whose stored confidence is
\* arg; the screen may render any number of times. InsightsScreen.tsx line 219
\* passes num01(p.confidence), part_000 line 286 safe01(p.confidence).
Render(fn, v) ==
    /\ ret' = [fn |-> fn, v |-> v]
    /\ UNCHANGED <<arg, vars, callVars>>

RenderConfidenceBar == Render("ConfidenceBar", ConfidenceBar(num01(arg)))
RenderConfidenceBarPart000 ==
    Render("ConfidenceBar_part_000", ConfidenceBar_part_000(safe01(arg)))

NextNum ==
    \/ ApplyRatio01
    \/ ApplyNum01
    \/ ApplySafe01
    \/ ApplyPct
    \/ ApplyPctPart000
    \/ ApplyFmtNum
    \/ ApplyPcTone
    \/ ApplyPcTonePart000
    \/ ApplyPutCallTonePart000
    \/ ApplyDarkPoolPart000
    \/ RenderConfidenceBar
    \/ RenderConfidenceBarPart000

SpecNum == InitNum /\ [][NextNum]_allVars

----------------------------------------------------------------------------
(* One rendering of a bar of the summary card *)

\* Values of a count of the summary payload: whole and fractional numbers,
\* negative numbers, null, and a missing field.
BarValues ==
    {Num(k * Scale) : k \in {0, 1, 2, 3, 50, 80, 100, 120, 150, -2, -50}}
        \cup {Num(Scale \div 5), Num(Scale \div 2)}
        \cup {JsNull, Undefined}

InitBars ==
    /\ screen = "part_000"
    /\ client = "part_000"
    /\ summary = Null
    /\ sentiment = Null
    /\ patterns = Null
    /\ loading = TRUE
    /\ err = NoMessage
    /\ started = 0
    /\ join = [c \in Cycles |-> "none"]
    /\ req = [c \in Cycles |-> [e \in Endpoints |-> NotCalled]]
    /\ settled = Nothing
    /\ call = NotCalled
    /\ callEp = "summary"
    /\ callOut = Nothing
    /\ arg \in BarValues \X BarValues \X BarValues
    /\ ret = NotApplied

\* InsightsScreen.tsx lines 112-116 and 125-129 pass num(field); part_000 lines
\* 140-144 and 152 pass the fields themselves.
ApplyBreadthBar ==
    Apply("BreadthBar", BreadthBar(num(arg[1]), num(arg[2]), num(arg[3])))
ApplyBreadthBarPart000 ==
    Apply("BreadthBar_part_000", BreadthBar_part_000(arg[1], arg[2], arg[3]))
ApplyVolumeBar ==
    Apply("VolumeBar", VolumeBar(num(arg[1]), num(arg[2]), num(arg[3])))
ApplyVolumeBarPart000 ==
    Apply("VolumeBar_part_000", VolumeBar_part_000(arg[1], arg[2], arg[3]))

NextBars ==
    \/ ApplyBreadthBar
    \/ ApplyBreadthBarPart000
    \/ ApplyVolumeBar
    \/ ApplyVolumeBarPart000

SpecBars == InitBars /\ [][NextBars]_allVars

----------------------------------------------------------------------------
(* Properties of the load cycles *)

AllNull == summary = Null /\ sentiment = Null /\ patterns = Null

\* Cycle c settles in this step: its Promise.all fulfils or rejects and load()
\* runs to its end.
Settles(c) == join[c] = "pending" /\ join'[c] # "pending"
Fails(c) == join[c] = "pending" /\ join'[c] = "rejected"
Succeeds(c) == join[c] = "pending" /\ join'[c] = "fulfilled"

\* C1: when a load cycle fails, then once it has settled summary, sentiment
\* and patterns are all null, whatever they held before.
C1_FailureClearsResults ==
    [][\A c \in Cycles : Fails(c) => AllNull']_allVars

\* C2: in every reachable state, a non-null error message implies that
\* summary, sentiment and patterns are all null.
C2_NoDataBesideError == err # NoMessage => AllNull

\* C3: when a cycle settles because one of its requests timed out, the error
\* text is "Request timed out", loading is false and the three results are null.
C3_TimeoutClearsAll ==
    [][\A c \in Cycles :
          Fails(c) /\ settled' = Rejected(TimedOut)
              => /\ err'.text = "Request timed out"
                 /\ loading' = FALSE
                 /\ AllNull']_allVars

\* C4 as stated: a load cycle does not settle until all three of its requests
\* have completed, successfully or with an error.
C4_SettlesAfterAllCompleted ==
    [][\A c \in Cycles :
          Settles(c) => \A e \in Endpoints : IsSettled(req'[c][e])]_allVars

\* C4 amended: a load cycle stays unsettled exactly while none of its requests
\* has rejected and one is still pending; it settles with results only when all
\* three have fulfilled and with the error as soon as one rejects; the error,
\* the results and loading = false are set only by a cycle settling.
C4_SettlesOnAllFulfilledOrFirstRejection ==
    /\ [](\A c \in Cycles :
            /\ join[c] = "fulfilled" => \A e \in Endpoints : req[c][e].phase = "fulfilled"
            /\ join[c] = "rejected" => \E e \in Endpoints : req[c][e].phase = "rejected"
            /\ join[c] = "pending" =>
                  /\ \A e \in Endpoints : req[c][e].phase # "rejected"
                  /\ \E e \in Endpoints : IsPending(req[c][e]))
    /\ [][(\/ err' # err /\ err' # NoMessage
           \/ <<summary, sentiment, patterns>>' # <<summary, sentiment, patterns>>
           \/ loading /\ ~loading')
              => \E c \in Cycles : Settles(c)]_allVars

\* A cycle has rejected while one of its requests is still on its way.
C4_RejectedWhilePending ==
    \E c \in Cycles :
        /\ join[c] = "rejected"
        /\ loading = FALSE
        /\ err # NoMessage
        /\ \E e \in Endpoints : IsPending(req[c][e])

\* C5: the three requests of a cycle are issued in one step, before the await;
\* the cycle settles at the step in which its third request fulfils or its
\* first request rejects; the error shown is the one that request rejected
\* with; a response of a cycle that has rejected changes no screen state.
C5_FailFastJoin ==
    [][\A c \in Cycles :
          /\ (\E e \in Endpoints : req[c][e].phase = "none" /\ req'[c][e].phase # "none")
                => /\ \A e \in Endpoints : req'[c][e].phase = "fetch"
                   /\ join'[c] = "pending"
          /\ Succeeds(c) <=>
                /\ \E e \in Endpoints : req[c][e].phase # "fulfilled"
                /\ \A e \in Endpoints : req'[c][e].phase = "fulfilled"
          /\ Fails(c) <=>
                /\ \A e \in Endpoints : req[c][e].phase # "rejected"
                /\ \E e \in Endpoints : req'[c][e].phase = "rejected"
          /\ Fails(c) => settled'.ok = FALSE /\ err' = CatchMessage(settled'.error)
          /\ (join[c] = "rejected" /\ req'[c] # req[c])
                => UNCHANGED <<summary, sentiment, patterns, loading, err>>
      ]_allVars

\* A cycle has rejected with the error of one request and a later request of
\* it has rejected with another error, which is not shown.
C5_LaterRejectionIgnored ==
    \E c \in Cycles :
        /\ join[c] = "rejected"
        /\ Cardinality({e \in Endpoints : req[c][e].phase = "rejected"}) >= 2
        /\ settled.ok = FALSE
        /\ err # CatchMessage(settled.error)
        /\ err # NoMessage

InFlight == \E c \in Cycles : join[c] = "pending"

\* C22: in every reachable state loading is true whenever a load cycle is in
\* flight, overlapping cycles included; loading is false only when none is, so
\* the empty-state text is never shown while a load is pending.
C22_LoadingWhileInFlight ==
    /\ InFlight => loading
    /\ EmptyState => ~InFlight

----------------------------------------------------------------------------
(* Properties of request() *)

\* C7: a call of request() that has settled has no armed timer, on whichever
\* path it settled, and nothing happens to a settled call any more (no abort()).
C7_TimerClearedOnEveryPath ==
    /\ [](\A c \in Cycles, e \in Endpoints :
            IsSettled(req[c][e]) => req[c][e].timer # "armed")
    /\ [][\A c \in Cycles, e \in Endpoints :
            IsSettled(req[c][e]) => req'[c][e] = req[c][e]]_allVars

\* A call rejected by a network error has its timer cleared.
C7_RejectedAndCleared ==
    \E c \in Cycles, e \in Endpoints :
        /\ req[c][e].phase = "rejected"
        /\ req[c][e].timer = "cleared"
        /\ settled = Rejected(NetworkError)

\* C8: a call of request() rejects with "Request timed out" if and only if its
\* timer fired and aborted it before it settled.
C8_TimedOutIffAborted ==
    IsSettled(call) => (callOut = Rejected(TimedOut) <=> call.timer = "fired")

IsPrefix(p, t) == Len(p) <= Len(t) /\ SubSeq(t, 1, Len(p)) = p

\* C9: only a 2xx response is parsed as JSON; a call holding a non-2xx response
\* rejects with a message that carries the status of that response and a
\* prefix of at most 180 characters of its body text, and never fulfils.
C9_NonOkRejectsWithStatus ==
    /\ [](/\ call.phase \in {"json", "fulfilled"} => ResOk(call.status)
          /\ call.phase = "text" => ~ResOk(call.status)
          /\ (IsSettled(call) /\ call.status # 0 /\ ~ResOk(call.status))
                => /\ call.phase = "rejected"
                   /\ callOut.ok = FALSE
                   /\ callOut.value = Null
                   /\ callOut.error.status = call.status
                   /\ Len(callOut.error.body) <= SliceLen
                   /\ \E text \in Bodies : IsPrefix(callOut.error.body, text))
    /\ [][(call.phase = "text" /\ call' # call)
             => /\ call'.phase = "rejected"
                /\ call'.status = call.status
                /\ callOut'.error.text = (IF client = "part_000" THEN "HTTP" ELSE callEp)
                /\ callOut'.error.path = PathOf(callEp)]_allVars

\* A 404 response with a body longer than 180 characters was rejected with
\* its first 180 characters.
C9_RejectedWithSlice ==
    /\ call.phase = "rejected"
    /\ call.status = 404
    /\ callOut.error.status = 404
    /\ Len(callOut.error.body) = SliceLen
    /\ IsPrefix(callOut.error.body, BodyOfLen(SliceLen + MaxExtra))

\* C18: partial success is never retained: a result held in state is a
\* payload of a cycle whose three requests all fulfilled; when one request of
\* a cycle rejects, no payload of that cycle is ever stored, whatever the
\* order in which the responses arrive.
C18_NoPartialSuccess ==
    \A e \in Endpoints :
        Held(e) # Null =>
            /\ Held(e).ep = e
            /\ join[Held(e).cycle] = "fulfilled"
            /\ \A f \in Endpoints : req[Held(e).cycle][f].phase = "fulfilled"

\* A cycle failed on its last response, after two of its requests had
\* fulfilled, and nothing of it is held.
C18_TwoFulfilledOneRejected ==
    \E c \in Cycles :
        /\ join[c] = "rejected"
        /\ req[c]["summary"].phase = "fulfilled"
        /\ req[c]["sentiment"].phase = "fulfilled"
        /\ req[c]["patterns"].phase = "rejected"
        /\ \A e \in Endpoints : Held(e).cycle # c

\* C19: every load cycle eventually settles and loading eventually becomes
\* false, assuming only that timers fire: no request stays pending forever.
C19_EveryCycleSettles ==
    /\ \A c \in Cycles : (join[c] = "pending") ~> (join[c] # "pending")
    /\ (started > 0 /\ loading) ~> ~loading

----------------------------------------------------------------------------
(* Properties of the numeric helpers *)

\* x clamped to [0, 1], x a finite number in units of 1 / Scale.
Clamp01(k) == IF k < 0 THEN 0 ELSE IF k > Scale THEN Scale ELSE k

PercentText(r) == Str(IntToChars(r) \o <<"%">>)

\* r is 100 * c / Scale rounded to the nearest integer, the larger of two.
IsRounded(r, c) ==
    /\ 2 * r * Scale - Scale <= 200 * c
    /\ 200 * c < 2 * r * Scale + Scale

\* C11: pct returns the fallback text exactly when its input does not coerce
\* to a finite number; otherwise it returns the digits of an integer in
\* 0..100 followed by "%", the integer being 100 times the input clamped to
\* [0, 1], rounded.
C11_FallbackOrWholePercent ==
    ret.fn \in {"pct", "pct_part_000"} =>
        LET v == ToNumber(arg)
        IN IF ~IsFinite(v) THEN ret.v = Dash
           ELSE \E r \in 0..100 :
                   /\ ret.v = PercentText(r)
                   /\ IsRounded(r, Clamp01(v.n))

\* C12: fmt(num(x), 2, "—") is never the fallback text: num(x) is finite for
\* every x (0 when x does not coerce to a finite number), so the result is the
\* decimal text, with two digits after the point, of num(x) rounded to
\* hundredths.
C12_FmtOfNumIsNeverFallback ==
    ret.fn = "fmt_num" =>
        LET v == ToNumber(arg)
            k == IF IsFinite(v) THEN v.n ELSE 0
            text == ret.v.s
            read == StringToNumber(text)
        IN /\ ret.v # Dash
           /\ ret.v.t = "string"
           /\ Len(text) >= 4
           /\ text[Len(text) - 2] = "."
           /\ IsFinite(read)
           /\ 200 * Abs(read.n - k) <= Scale

\* fmt(num(x), 2, "—") of a string that is not a number is "0.00".
C12_NonNumericGivesZeroText ==
    /\ ret.fn = "fmt_num"
    /\ arg = Str(<<"a">>)
    /\ ret.v = Str(<<"0", ".", "0", "0">>)

\* C16: for every finite put/call ratio r the tone is good when r < 0.9, warn
\* when r > 1.1 and neutral when 0.9 <= r <= 1.1; 0.85 is good, 1.15 warn and
\* 1.0 neutral.
C16_ToneOfFiniteRatio ==
    (ret.fn \in {"pcTone", "pcTone_part_000"} /\ arg.t = "number") =>
        /\ 10 * arg.n < 9 * Scale => ret.v = "good"
        /\ 10 * arg.n > 11 * Scale => ret.v = "warn"
        /\ (9 * Scale <= 10 * arg.n /\ 10 * arg.n <= 11 * Scale) => ret.v = "neutral"
        /\ arg = Num((85 * Scale) \div 100) => ret.v = "good"
        /\ arg = Num((115 * Scale) \div 100) => ret.v = "warn"
        /\ arg = Num(Scale) => ret.v = "neutral"

\* pcTone classified the ratio 1.1, the upper bound itself, as neutral.
C16_UpperBoundIsNeutral ==
    /\ ret.fn = "pcTone"
    /\ arg = Num((11 * Scale) \div 10)
    /\ ret.v = "neutral"

ZeroPercent == Str(<<"0", "%">>)

\* C17: for a pattern whose stored confidence is null the confidence bar shows
\* a fill of 0 and the text "0%", and no render pass changes the stored value:
\* it is still null after any number of passes.
C17_NullConfidenceRendersZero ==
    /\ [](ret.fn \in {"ConfidenceBar", "ConfidenceBar_part_000"} /\ arg = JsNull
            => ret.v.width = ZeroPercent /\ ret.v.text = ZeroPercent)
    /\ [][arg' = arg]_allVars

\* The confidence bar of InsightsScreen.tsx rendered a null confidence as "0%".
C17_NullRendered ==
    /\ ret.fn = "ConfidenceBar"
    /\ arg = JsNull
    /\ ret.v.text = ZeroPercent

\* A field that carries no numeric value: null, undefined, or a string that is
\* not a number.
NoNumericValue(x) ==
    \/ x.t \in {"null", "undefined"}
    \/ x.t = "string" /\ ToNumber(x).t = "nan"

\* C20: a put/call ratio that carries no numeric value is neutral, never good
\* or warn, and a percent field that carries no numeric value shows the
\* fallback text, never "0%". InsightsScreen.tsx calls pcTone and pct on the
\* fields themselves (lines 173 and 180); part_000 guards them with isNum.
C20_UnknownIsNotZero ==
    NoNumericValue(arg) =>
        /\ ret.fn \in {"pcTone", "PutCallTone_part_000"} => ret.v = "neutral"
        /\ ret.fn = "pct" => ret.v = Dash
        /\ ret.fn = "DarkPool_part_000" => ret.v = EnDash

----------------------------------------------------------------------------
(* Properties of the bars *)

\* The argument the component received: InsightsScreen.tsx coerces at the call
\* site, part_000 does not.
Prop(i) == IF ret.fn \in {"BreadthBar", "VolumeBar"} THEN num(arg[i]) ELSE arg[i]

NonNegative(x) == x.t = "number" /\ x.n >= 0

InPercentRange(x) ==
    x.t = "number" /\ ShareLe(PercentOf(0), x) /\ ShareLe(x, PercentOf(100))

ShareEq(x, y) == x.t = "number" /\ y.t = "number" /\ x.p * y.q = y.p * x.q

BreadthTotal == LET sum == Prop(1).n + Prop(2).n + Prop(3).n
                IN IF sum < Scale THEN Scale ELSE sum

Remainder == ShareSub(ShareSub(PercentOf(100), ret.v.a), ret.v.d)

BreadthExample ==
    (Prop(1) = Num(120 * Scale) /\ Prop(2) = Num(80 * Scale) /\ Prop(3) = Num(0))
        => /\ ShareEq(ret.v.a, PercentOf(60))
           /\ ShareEq(ret.v.u, PercentOf(0))
           /\ ShareEq(ret.v.d, PercentOf(40))

VolumeDenominator ==
    LET t == IF Prop(3).n # 0 THEN Prop(3).n ELSE Prop(1).n + Prop(2).n
    IN IF t < Scale THEN Scale ELSE t

Clamp100(x) == ShareMax(PercentOf(0), ShareMin(PercentOf(100), x))

\* C15: the up and down percentages of VolumeBar are each in [0, 100] for all
\* numbers up, down and total of a summary payload (total below up or down,
\* total 0 and negative numbers included): 100 * up / t and 100 * down / t
\* clamped, with t = max(1, total if it is not 0, else up + down).
C15_VolumeSharesWithinRange ==
    (/\ ret.fn \in {"VolumeBar", "VolumeBar_part_000"}
     /\ \A i \in 1..3 : arg[i].t = "number")
        => /\ InPercentRange(ret.v.pUp)
           /\ InPercentRange(ret.v.pDown)
           /\ ShareEq(ret.v.pUp, Clamp100(Share(100 * Prop(1).n, VolumeDenominator)))
           /\ ShareEq(ret.v.pDown, Clamp100(Share(100 * Prop(2).n, VolumeDenominator)))

====
